---- MODULE Spec2Model ----
(***************************************************************************)
(* Model of script2.py: the Point record, YandexMapGenerator (load_points, *)
(* _parse_points, generate_map_url, display_map) and main().               *)
(*                                                                         *)
(* Python strings whose characters matter (JSON string values, the URL)    *)
(* are sequences of one-character strings.  A JSON value is a record       *)
(* [t, v]: t is the Python type json produces for it ("int", "float",      *)
(* "str", "NoneType", "dict", "list") and v the value.  A float is the     *)
(* decimal  (-1)^neg * m / 10^e  with no trailing zero in its fraction,    *)
(* which is exact for the short decimals used here.  An input text is a    *)
(* record [k, v]: k = "json" for a text that json parses, v being the      *)
(* value json.loads returns for it; k = "raw" for any other text, v being  *)
(* the text itself, tagged "text".                                         *)
(***************************************************************************)
EXTENDS Integers, Sequences, FiniteSets, TLC

\* Longest JSON array among the inputs.
MaxLen == 2

----------------------------------------------------------------------------
(* Python values *)

JInt(n) == [t |-> "int", v |-> n]
JFloat(neg, m, e) == [t |-> "float", v |-> [neg |-> neg, m |-> m, e |-> e]]
JStr(s) == [t |-> "str", v |-> s]
JNone == [t |-> "NoneType", v |-> 0]
JDict(d) == [t |-> "dict", v |-> d]
JList(l) == [t |-> "list", v |-> l]

\* Outcome of an expression: exc = "none" and its value, or the exception.
Ok(val) == [exc |-> "none", val |-> val]
Raise(exc) == [exc |-> exc, val |-> 0]

RECURSIVE Pow10(_)
Pow10(e) == IF e = 0 THEN 1 ELSE 10 * Pow10(e - 1)

Abs(n) == IF n < 0 THEN -n ELSE n

Digits == <<"0", "1", "2", "3", "4", "5", "6", "7", "8", "9">>

IsDigit(c) == \E i \in 1..10 : Digits[i] = c

DigitVal(c) == (CHOOSE i \in 1..10 : Digits[i] = c) - 1

RECURSIVE NatChars(_)
\* Decimal digits of a natural number, most significant first.
NatChars(n) == IF n < 10 THEN <<Digits[n + 1]>>
               ELSE NatChars(n \div 10) \o <<Digits[(n % 10) + 1]>>

RECURSIVE PadChars(_, _)
\* The digits of n, zero-padded on the left to width w.
PadChars(n, w) == IF w = 0 THEN <<>>
                  ELSE PadChars(n \div 10, w - 1) \o <<Digits[(n % 10) + 1]>>

RECURSIVE DigitsVal(_)
\* Value of a non-empty sequence of digits.
DigitsVal(s) == IF Len(s) = 0 THEN 0
                ELSE 10 * DigitsVal(SubSeq(s, 1, Len(s) - 1)) + DigitVal(s[Len(s)])

AllDigits(s) == \A i \in 1..Len(s) : IsDigit(s[i])

HasSign(s) == Len(s) > 0 /\ s[1] \in {"-", "+"}

Unsigned(s) == IF HasSign(s) THEN SubSeq(s, 2, Len(s)) ELSE s

RECURSIVE Normal(_, _, _)
\* The float (-1)^neg * m / 10^e without trailing zeros in the fraction.
Normal(neg, m, e) == IF e > 0 /\ m % 10 = 0 THEN Normal(neg, m \div 10, e - 1)
                     ELSE [neg |-> neg, m |-> m, e |-> e]

\* str(n) of an int (f-string formatting of Point.id).
int_str(n) == IF n < 0 THEN <<"-">> \o NatChars(-n) ELSE NatChars(n)

\* repr of a float (f-string formatting of Point.latitude / longitude):
\* sign, integer part, ".", fraction ("0" when the float is integral).
\* Python writes a float this way when it is 0 or 1e-4 <= |x| < 1e16.
float_str(f) ==
    (IF f.neg THEN <<"-">> ELSE <<>>)
    \o NatChars(f.m \div Pow10(f.e)) \o <<".">>
    \o (IF f.e = 0 THEN <<"0">> ELSE PadChars(f.m % Pow10(f.e), f.e))

\* int(str): optional sign, then one or more digits.  (Python also strips
\* blanks and accepts "_" between digits; no modelled string has either.)
int_of_str(s) ==
    LET u == Unsigned(s)
    IN  IF Len(u) > 0 /\ AllDigits(u)
        THEN Ok(IF s[1] = "-" THEN -DigitsVal(u) ELSE DigitsVal(u))
        ELSE Raise("ValueError")

\* float(str): optional sign, digits with at most one ".", at least one digit.
\* (Exponents, "inf" and "nan" are not among the modelled strings.)
float_of_str(s) ==
    LET u == Unsigned(s)
        dots == {i \in 1..Len(u) : u[i] = "."}
        dot == IF dots = {} THEN Len(u) + 1 ELSE CHOOSE i \in dots : TRUE
        ip == SubSeq(u, 1, dot - 1)
        fp == SubSeq(u, dot + 1, Len(u))
    IN  IF Cardinality(dots) <= 1 /\ AllDigits(ip) /\ AllDigits(fp)
           /\ Len(ip) + Len(fp) > 0
        THEN Ok(Normal(HasSign(s) /\ s[1] = "-",
                       DigitsVal(ip) * Pow10(Len(fp)) + DigitsVal(fp), Len(fp)))
        ELSE Raise("ValueError")

\* int(x) as called on point["id"].
int(x) ==
    CASE x.t = "int" -> Ok(x.v)
      [] x.t = "float" -> Ok((IF x.v.neg THEN -1 ELSE 1) * (x.v.m \div Pow10(x.v.e)))
      [] x.t = "str" -> int_of_str(x.v)
      [] OTHER -> Raise("TypeError")

\* float(x) as called on point["latitude"] and point["longitude"].
float(x) ==
    CASE x.t = "int" -> Ok([neg |-> x.v < 0, m |-> Abs(x.v), e |-> 0])
      [] x.t = "float" -> Ok(x.v)
      [] x.t = "str" -> float_of_str(x.v)
      [] OTHER -> Raise("TypeError")

----------------------------------------------------------------------------
(* class Point *)

\* Point(point_id, latitude, longitude, title)
Point(point_id, latitude, longitude, title) ==
    [id |-> point_id, latitude |-> latitude, longitude |-> longitude, title |-> title]

----------------------------------------------------------------------------
(* YandexMapGenerator.__init__ defaults *)

_zoom == 5

_lang == <<"r", "u", "_", "R", "U">>

----------------------------------------------------------------------------
(* YandexMapGenerator._parse_points *)

RequiredKeys == <<"id", "latitude", "longitude">>

\* The characters of a key string.
KeyChars(key) ==
    CASE key = "id" -> <<"i", "d">>
      [] key = "latitude" -> <<"l", "a", "t", "i", "t", "u", "d", "e">>
      [] key = "longitude" -> <<"l", "o", "n", "g", "i", "t", "u", "d", "e">>
      [] key = "title" -> <<"t", "i", "t", "l", "e">>

\* sub in s, for two strings.
IsSubstring(sub, s) ==
    \E i \in 0..(Len(s) - Len(sub)) : SubSeq(s, i + 1, i + Len(sub)) = sub

\* key in point: dict membership, list membership, substring of a str,
\* TypeError for a value that is not iterable.
key_in(key, point) ==
    CASE point.t = "dict" -> Ok(key \in DOMAIN point.v)
      [] point.t = "list" ->
            Ok(\E i \in 1..Len(point.v) : point.v[i] = JStr(KeyChars(key)))
      [] point.t = "str" -> Ok(IsSubstring(KeyChars(key), point.v))
      [] OTHER -> Raise("TypeError")

\* all(key in point for key in ["id", "latitude", "longitude"])
all_keys_in(point) ==
    IF key_in(RequiredKeys[1], point).exc # "none"
    THEN Raise("TypeError")
    ELSE Ok(\A i \in 1..Len(RequiredKeys) : key_in(RequiredKeys[i], point).val)

\* point[key]: only a dict can be subscripted by a str.
subscript(point, key) ==
    IF point.t = "dict" THEN Ok(point.v[key]) ELSE Raise("TypeError")

\* point.get("title")
get_title(point) ==
    IF "title" \in DOMAIN point.v THEN point.v["title"] ELSE JNone

\* Point(int(point["id"]), float(point["latitude"]), float(point["longitude"]),
\*       point.get("title")), the arguments evaluated left to right.
new_point(point) ==
    LET i == subscript(point, "id")
        a == subscript(point, "latitude")
        o == subscript(point, "longitude")
        point_id == int(i.val)
        latitude == float(a.val)
        longitude == float(o.val)
    IN  IF i.exc # "none" THEN Raise(i.exc)
        ELSE IF point_id.exc # "none" THEN Raise(point_id.exc)
        ELSE IF latitude.exc # "none" THEN Raise(latitude.exc)
        ELSE IF longitude.exc # "none" THEN Raise(longitude.exc)
        ELSE Ok(Point(point_id.val, latitude.val, longitude.val,
                      get_title(point)))

RECURSIVE parse_loop_prepend(_, _, _)
\* parse_loop putting each new Point in front of the collection.
parse_loop_prepend(data, i, acc) ==
    IF i > Len(data)
    THEN [points |-> acc, exc |-> "none", msg |-> "loaded"]
    ELSE LET chk == all_keys_in(data[i])
             p == new_point(data[i])
         IN  IF chk.exc # "none"
             THEN [points |-> acc, exc |-> chk.exc, msg |-> "not iterable"]
             ELSE IF ~chk.val
             THEN [points |-> acc, exc |-> "ValueError", msg |-> "missing key"]
             ELSE IF p.exc # "none"
             THEN [points |-> acc, exc |-> p.exc, msg |-> "coercion"]
             ELSE parse_loop_prepend(data, i + 1, <<p.val>> \o acc)

RECURSIVE parse_loop(_, _, _)
\* The for loop of _parse_points from element i on; acc is self._points.
\* An exception leaves self._points as the loop built it so far.
parse_loop(data, i, acc) ==
    IF i > Len(data)
    THEN [points |-> acc, exc |-> "none", msg |-> "loaded"]
    ELSE LET chk == all_keys_in(data[i])
             p == new_point(data[i])
         IN  IF chk.exc # "none"
             THEN [points |-> acc, exc |-> chk.exc, msg |-> "not iterable"]
             ELSE IF ~chk.val
             THEN [points |-> acc, exc |-> "ValueError", msg |-> "missing key"]
             ELSE IF p.exc # "none"
             THEN [points |-> acc, exc |-> p.exc, msg |-> "coercion"]
             ELSE parse_loop(data, i + 1, Append(acc, p.val))

\* _parse_points without self._points = []: the loop appends to the
\* collection the generator holds.
_parse_points_keep(points, data) ==
    IF data.t # "list"
    THEN [points |-> points, exc |-> "ValueError", msg |-> "not a list"]
    ELSE parse_loop(data.v, 1, points)

\* _parse_points(data) on a generator holding points.
_parse_points(points, data) ==
    IF data.t # "list"
    THEN [points |-> points, exc |-> "ValueError", msg |-> "not a list"]
    ELSE parse_loop(data.v, 1, <<>>)

----------------------------------------------------------------------------
(* YandexMapGenerator.load_points *)

\* isfile that finds no file.
isfile_never(fs, json_input) == FALSE

\* os.path.isfile(json_input): fs maps the names of the existing files to
\* their contents.
isfile(fs, json_input) == json_input \in DOMAIN fs

\* json.loads(text), and json.load of a file holding text: the value of a
\* text json parses, JSONDecodeError for any other text.
json_loads(text) ==
    IF text.k = "json" THEN Ok(text.v) ELSE Raise("JSONDecodeError")

\* load_points(json_input) on a generator holding points: the new
\* self._points, the exception that leaves the call, the source the log
\* line names and the value handed to _parse_points.
load_points(fs, points, json_input) ==
    LET src == IF isfile(fs, json_input) THEN "file" ELSE "string"
        data == IF isfile(fs, json_input) THEN json_loads(fs[json_input])
                ELSE json_loads(json_input)
        r == _parse_points(points, data.val)
    IN  IF data.exc # "none"
        THEN [points |-> points, exc |-> data.exc, msg |-> "decode",
              src |-> src, data |-> JNone, parsed |-> FALSE]
        ELSE [points |-> r.points, exc |-> r.exc, msg |-> r.msg,
              src |-> src, data |-> data.val, parsed |-> TRUE]

----------------------------------------------------------------------------
(* YandexMapGenerator.generate_map_url *)

\* Characters urllib.parse.quote_plus leaves as they are.
Unreserved ==
    {"a", "b", "c", "d", "e", "f", "g", "h", "i", "j", "k", "l", "m", "n", "o",
     "p", "q", "r", "s", "t", "u", "v", "w", "x", "y", "z",
     "A", "B", "C", "D", "E", "F", "G", "H", "I", "J", "K", "L", "M", "N", "O",
     "P", "Q", "R", "S", "T", "U", "V", "W", "X", "Y", "Z",
     "0", "1", "2", "3", "4", "5", "6", "7", "8", "9", "_", ".", "-", "~"}

\* The %XX escape of a reserved ASCII character.
PercentCode(c) ==
    CASE c = "," -> <<"%", "2", "C">>
      [] c = "+" -> <<"%", "2", "B">>
      [] c = "%" -> <<"%", "2", "5">>
      [] c = "&" -> <<"%", "2", "6">>
      [] c = "=" -> <<"%", "3", "D">>
      [] c = "/" -> <<"%", "2", "F">>
      [] c = ":" -> <<"%", "3", "A">>
      [] c = "?" -> <<"%", "3", "F">>

RECURSIVE quote_plus(_)
\* urllib.parse.quote_plus(s), which urlencode applies to keys and values.
quote_plus(s) ==
    IF Len(s) = 0 THEN <<>>
    ELSE (IF s[1] \in Unreserved THEN <<s[1]>>
          ELSE IF s[1] = " " THEN <<"+">>
          ELSE PercentCode(s[1])) \o quote_plus(Tail(s))

RECURSIVE join(_, _)
\* sep.join(parts)
join(sep, parts) ==
    IF Len(parts) = 0 THEN <<>>
    ELSE IF Len(parts) = 1 THEN parts[1]
    ELSE parts[1] \o sep \o join(sep, Tail(parts))

\* urllib.parse.urlencode(params): params is the sequence of the dict's
\* (key, value) pairs in insertion order, the values already str()-ed.
urlencode(params) ==
    join(<<"&">>, [i \in 1..Len(params) |->
                     quote_plus(params[i][1]) \o <<"=">> \o quote_plus(params[i][2])])

base_url ==
    <<"h", "t", "t", "p", "s", ":", "/", "/", "m", "a", "p", "s", ".",
      "y", "a", "n", "d", "e", "x", ".", "r", "u", "/">>

\* marker with the latitude first.
marker_lat_first(p) ==
    float_str(p.latitude) \o <<",">> \o float_str(p.longitude)
    \o <<",", "p", "m", "w", "t", "m">> \o int_str(p.id)

\* f"{p.longitude},{p.latitude},pmwtm{p.id}"
marker(p) ==
    float_str(p.longitude) \o <<",">> \o float_str(p.latitude)
    \o <<",", "p", "m", "w", "t", "m">> \o int_str(p.id)

\* center with the latitude first.
center_lat_first(points) ==
    float_str(points[1].latitude) \o <<",">> \o float_str(points[1].longitude)

\* f"{self._points[0].longitude},{self._points[0].latitude}"
center(points) ==
    float_str(points[1].longitude) \o <<",">> \o float_str(points[1].latitude)

\* generate_map_url without the check for an empty collection (and an empty
\* center when there is no first point).
generate_map_url_unchecked(points) ==
    LET points_str == [i \in 1..Len(points) |-> marker(points[i])]
        params == << <<(<<"l", "l">>),
                       IF Len(points) = 0 THEN <<>> ELSE center(points)>>,
                     <<(<<"z">>), int_str(_zoom)>>,
                     <<(<<"l", "a", "n", "g">>), _lang>>,
                     <<(<<"p", "t">>), join(<<"~">>, points_str)>> >>
    IN  [exc |-> "none", msg |-> "url",
         val |-> base_url \o <<"?">> \o urlencode(params)]

\* generate_map_url() on a generator holding points.
generate_map_url(points) ==
    IF Len(points) = 0
    THEN [exc |-> "ValueError", msg |-> "no points", val |-> <<>>]
    ELSE LET points_str == [i \in 1..Len(points) |-> marker(points[i])]
             params == << <<(<<"l", "l">>), center(points)>>,
                          <<(<<"z">>), int_str(_zoom)>>,
                          <<(<<"l", "a", "n", "g">>), _lang>>,
                          <<(<<"p", "t">>), join(<<"~">>, points_str)>> >>
         IN  [exc |-> "none", msg |-> "url",
              val |-> base_url \o <<"?">> \o urlencode(params)]

----------------------------------------------------------------------------
(* Inputs *)

\* {"id": 1, "latitude": 55.75, "longitude": 37.62, "title": "A"}
W1 == JDict([key \in {"id", "latitude", "longitude", "title"} |->
               CASE key = "id" -> JInt(1)
                 [] key = "latitude" -> JFloat(FALSE, 5575, 2)
                 [] key = "longitude" -> JFloat(FALSE, 3762, 2)
                 [] key = "title" -> JStr(<<"A">>)])

\* {"id": 2, "latitude": -10, "longitude": 30.5}
W2 == JDict([key \in {"id", "latitude", "longitude"} |->
               CASE key = "id" -> JInt(2)
                 [] key = "latitude" -> JInt(-10)
                 [] key = "longitude" -> JFloat(FALSE, 305, 1)])

\* {"id": 1, "latitude": 55.75}: no longitude
M1 == JDict([key \in {"id", "latitude"} |->
               CASE key = "id" -> JInt(1)
                 [] key = "latitude" -> JFloat(FALSE, 5575, 2)])

\* {"id": "x", "latitude": 1, "longitude": 2}: int("x") raises ValueError
CV == JDict([key \in {"id", "latitude", "longitude"} |->
               CASE key = "id" -> JStr(<<"x">>)
                 [] key = "latitude" -> JInt(1)
                 [] key = "longitude" -> JInt(2)])

\* {"id": 3, "latitude": null, "longitude": 2}: float(None) raises TypeError
CT == JDict([key \in {"id", "latitude", "longitude"} |->
               CASE key = "id" -> JInt(3)
                 [] key = "latitude" -> JNone
                 [] key = "longitude" -> JInt(2)])

\* {"id": "7", "latitude": "-1.50", "longitude": 2.5}: strings that coerce
S7 == JDict([key \in {"id", "latitude", "longitude"} |->
               CASE key = "id" -> JStr(<<"7">>)
                 [] key = "latitude" -> JStr(<<"-", "1", ".", "5", "0">>)
                 [] key = "longitude" -> JFloat(FALSE, 25, 1)])

\* Array elements: objects, and the number 5.
Elems == {W1, W2, M1, CV, CT, S7, JInt(5)}

SeqsUpTo(S, n) == UNION {[1..k -> S] : k \in 0..n}

\* The JSON values of the input texts: arrays, and two values that are not.
Docs == {JList(l) : l \in SeqsUpTo(Elems, MaxLen)} \cup {JNone, W1}

JsonText(doc) == [k |-> "json", v |-> doc]

RawText(s) == [k |-> "raw", v |-> [t |-> "text", v |-> s]]

\* Texts json cannot parse: a file name and the empty string.
RawTexts == {RawText("points.json"), RawText("")}

Texts == {JsonText(d) : d \in Docs} \cup RawTexts

\* Names a file can have: a path, and the text [] itself.
FileNames == {RawText("points.json"), JsonText(JList(<<>>))}

\* What a file can hold: [W1, W2] or text that is not JSON.
FileContents == {JsonText(JList(<<W1, W2>>)), RawText("points.json")}

FileSystems == UNION {[S -> FileContents] : S \in SUBSET FileNames}

\* args.json_input when the positional argument is absent.
None == [k |-> "None", v |-> JNone]

\* Truth value of args.json_input: None and "" are false.
truthy(json_input) == json_input # None /\ json_input # RawText("")

----------------------------------------------------------------------------
(* State *)

VARIABLES
    fs,         \* the local filesystem: name of each existing file -> contents
    _points,    \* YandexMapGenerator._points
    call,       \* the last method call on the generator and its outcome
    args,       \* main: the parsed command line [stdin, json_input]
    stdin,      \* main: the text on standard input
    pc,         \* main: position of the run
    log,        \* main: the stages the run executed, in order
    exit_code   \* main: the exit status of the process, -1 while it runs

vars == <<fs, _points, call, args, stdin, pc, log, exit_code>>

main_vars == <<args, stdin, pc, log, exit_code>>

\* held: the generator held points when the call began.
NoCall == [op |-> "__init__", arg |-> None, exc |-> "none", msg |-> "",
           src |-> "", data |-> JNone, parsed |-> FALSE, held |-> FALSE,
           ret |-> <<>>, opened |-> <<>>]

\* The record of a load_points(json_input) call with outcome r on a
\* generator that held points.
LoadCall(points, json_input, r) ==
    [op |-> "load_points", arg |-> json_input, exc |-> r.exc, msg |-> r.msg,
     src |-> r.src, data |-> r.data, parsed |-> r.parsed,
     held |-> Len(points) > 0, ret |-> <<>>, opened |-> <<>>]

\* display_map(): the URL of generate_map_url() goes to webbrowser.open;
\* an exception of generate_map_url() leaves display_map() before that.
display_map(points) ==
    LET url == generate_map_url(points)
    IN  [exc |-> url.exc, msg |-> url.msg, url |-> url.val,
         opened |-> IF url.exc = "none" THEN <<url.val>> ELSE <<>>]

----------------------------------------------------------------------------
(* A generator object and the calls a client makes on it *)

Init ==
    /\ fs \in FileSystems
    /\ _points = <<>>
    /\ call = NoCall
    /\ args = [stdin |-> FALSE, json_input |-> None]
    /\ stdin = RawText("")
    /\ pc = "idle"
    /\ log = <<>>
    /\ exit_code = -1

LoadPoints ==
    \E json_input \in Texts :
        LET r == load_points(fs, _points, json_input)
        IN  /\ _points' = r.points
            /\ call' = LoadCall(_points, json_input, r)
            /\ UNCHANGED <<fs, main_vars>>

GenerateMapUrl ==
    LET r == generate_map_url(_points)
    IN  /\ call' = [NoCall EXCEPT !.op = "generate_map_url", !.exc = r.exc,
                                  !.msg = r.msg, !.ret = r.val,
                                  !.held = Len(_points) > 0]
        /\ UNCHANGED <<fs, _points, main_vars>>

DisplayMap ==
    LET r == display_map(_points)
    IN  /\ call' = [NoCall EXCEPT !.op = "display_map", !.exc = r.exc,
                                  !.msg = r.msg, !.opened = r.opened,
                                  !.held = Len(_points) > 0]
        /\ UNCHANGED <<fs, _points, main_vars>>

Next == LoadPoints \/ GenerateMapUrl \/ DisplayMap

Spec == Init /\ [][Next]_vars

----------------------------------------------------------------------------
(* main(): one run of the program *)

InitMain ==
    /\ fs \in FileSystems
    /\ _points = <<>>
    /\ call = NoCall
    /\ \E flag \in BOOLEAN, positional \in Texts \cup {None}, text \in Texts :
          /\ args = [stdin |-> flag, json_input |-> positional]
          /\ stdin = text
          \* the inputs the run does not read are fixed
          /\ flag => positional \in {None, RawText("points.json")}
          /\ ~flag => text = RawText("")
    /\ pc = "main"
    /\ log = <<>>
    /\ exit_code = -1

\* MainLoad going on to display_map whatever load_points raised.
MainLoad_continue(from, json_input) ==
    LET r == load_points(fs, _points, json_input)
    IN  /\ _points' = r.points
        /\ call' = LoadCall(_points, json_input, r)
        /\ log' = Append(log, [stage |-> "load_points", from |-> from,
                               exc |-> r.exc])
        /\ pc' = "display_map" /\ exit_code' = exit_code
        /\ UNCHANGED <<fs, args, stdin>>

\* The stage a load_points call adds to the log, and how the run goes on.
MainLoad(from, json_input) ==
    LET r == load_points(fs, _points, json_input)
    IN  /\ _points' = r.points
        /\ call' = LoadCall(_points, json_input, r)
        /\ log' = Append(log, [stage |-> "load_points", from |-> from,
                               exc |-> r.exc])
        /\ IF r.exc = "none"
           THEN pc' = "display_map" /\ exit_code' = exit_code
           ELSE pc' = "exit" /\ exit_code' = 1
        /\ UNCHANGED <<fs, args, stdin>>

\* if args.stdin: load_points(sys.stdin.read())
MainStdin ==
    /\ pc = "main"
    /\ args.stdin
    /\ MainLoad("stdin", stdin)

\* elif args.json_input: load_points(args.json_input)
MainPositional ==
    /\ pc = "main"
    /\ ~args.stdin
    /\ truthy(args.json_input)
    /\ MainLoad("json_input", args.json_input)

\* MainUsage reporting nothing and going on to display_map.
MainUsage_fallthrough ==
    /\ pc = "main"
    /\ ~args.stdin
    /\ ~truthy(args.json_input)
    /\ pc' = "display_map"
    /\ UNCHANGED <<fs, _points, call, args, stdin, log, exit_code>>

\* else: parser.error(...), which exits with status 2
MainUsage ==
    /\ pc = "main"
    /\ ~args.stdin
    /\ ~truthy(args.json_input)
    /\ pc' = "exit"
    /\ exit_code' = 2
    /\ UNCHANGED <<fs, _points, call, args, stdin, log>>

\* map_generator.display_map(), then the end of main
MainDisplayMap ==
    /\ pc = "display_map"
    /\ LET r == display_map(_points)
       IN  /\ call' = [NoCall EXCEPT !.op = "display_map", !.exc = r.exc,
                                     !.msg = r.msg, !.opened = r.opened,
                                     !.held = Len(_points) > 0]
           /\ log' = log
                \o <<[stage |-> "generate_map_url", from |-> "", exc |-> r.exc]>>
                \o (IF r.exc = "none"
                    THEN <<[stage |-> "webbrowser.open", from |-> "",
                            exc |-> "none"]>>
                    ELSE <<>>)
           /\ exit_code' = IF r.exc = "none" THEN 0 ELSE 1
    /\ pc' = "exit"
    /\ UNCHANGED <<fs, _points, args, stdin>>

NextMain == MainStdin \/ MainPositional \/ MainUsage \/ MainDisplayMap

SpecMain == InitMain /\ [][NextMain]_vars

----------------------------------------------------------------------------
(* Reading a URL back *)

RECURSIVE Split(_, _)
\* s.split(c) for a one-character separator c.
Split(s, c) ==
    LET at == {i \in 1..Len(s) : s[i] = c}
        first == CHOOSE i \in at : \A j \in at : i <= j
    IN  IF at = {} THEN <<s>>
        ELSE <<SubSeq(s, 1, first - 1)>> \o Split(SubSeq(s, first + 1, Len(s)), c)

Reserved == {",", "+", "%", "&", "=", "/", ":", "?"}

RECURSIVE Unquote(_)
\* The text a percent-encoded query value stands for.
Unquote(s) ==
    IF Len(s) = 0 THEN <<>>
    ELSE IF s[1] = "%" /\ Len(s) >= 3
    THEN <<CHOOSE c \in Reserved : PercentCode(c) = SubSeq(s, 1, 3)>>
         \o Unquote(SubSeq(s, 4, Len(s)))
    ELSE IF s[1] = "+" THEN <<" ">> \o Unquote(Tail(s))
    ELSE <<s[1]>> \o Unquote(Tail(s))

\* The decoded values of the query parameter name of url, in order.
QueryParam(url, name) ==
    LET query == SubSeq(url, Len(base_url) + 2, Len(url))
        pairs == Split(query, "&")
        hits == SelectSeq(pairs, LAMBDA kv : Split(kv, "=")[1] = name)
    IN  [i \in 1..Len(hits) |-> Unquote(Split(hits[i], "=")[2])]

\* The URL the last call produced: returned by generate_map_url, handed to
\* the browser by display_map.
MadeUrl == call.op \in {"generate_map_url", "display_map"} /\ call.exc = "none"

LastUrl == IF call.op = "generate_map_url" THEN call.ret ELSE call.opened[1]

----------------------------------------------------------------------------
(* Claims *)

\* C1 (as stated): a load that fails on an element lacking id, latitude or
\* longitude fails with a validation error and leaves the generator with no
\* points, wherever the element is in the array.
C1_FailedLoadRetainsNothing ==
    (call.op = "load_points" /\ call.msg = "missing key")
        => (call.exc = "ValueError" /\ _points = <<>>)

\* A JSON number equals a float.
NumEq(j, f) ==
    /\ j.t \in {"int", "float"}
    /\ IF j.t = "int"
       THEN (IF f.neg THEN -f.m ELSE f.m) = j.v * Pow10(f.e)
       ELSE f = j.v

\* A well-formed point object: id an integer, latitude and longitude
\* numbers, title absent or a string.
WellFormed(e) ==
    /\ e.t = "dict"
    /\ {"id", "latitude", "longitude"} \subseteq DOMAIN e.v
    /\ DOMAIN e.v \subseteq {"id", "latitude", "longitude", "title"}
    /\ e.v["id"].t = "int"
    /\ e.v["latitude"].t \in {"int", "float"}
    /\ e.v["longitude"].t \in {"int", "float"}
    /\ "title" \in DOMAIN e.v => e.v["title"].t = "str"

WellFormedArray(data) ==
    data.t = "list" /\ \A i \in 1..Len(data.v) : WellFormed(data.v[i])

\* Point p carries the id, latitude, longitude and title of object e.
Carries(p, e) ==
    /\ p.id = e.v["id"].v
    /\ NumEq(e.v["latitude"], p.latitude)
    /\ NumEq(e.v["longitude"], p.longitude)
    /\ p.title = IF "title" \in DOMAIN e.v THEN e.v["title"] ELSE JNone

\* C2: loading a JSON array of well-formed point objects succeeds, and the
\* collection has the array's length, its i-th Point carrying the id,
\* latitude, longitude and title of the i-th element (order and duplicates
\* kept).
C2_WellFormedArrayLoads ==
    (call.op = "load_points" /\ call.parsed /\ WellFormedArray(call.data))
        => /\ call.exc = "none"
           /\ Len(_points) = Len(call.data.v)
           /\ \A i \in 1..Len(_points) : Carries(_points[i], call.data.v[i])

\* C2 witness: an array of two different well-formed objects, loaded over an
\* earlier collection.
C2_Witness ==
    /\ call.op = "load_points" /\ call.parsed /\ WellFormedArray(call.data)
    /\ call.held
    /\ Len(call.data.v) = 2 /\ call.data.v[1] # call.data.v[2]
    /\ Len(_points) = 2 /\ _points[1].id = 2 /\ _points[2].id = 1

\* C3: with an empty collection generate_map_url fails with the "no points"
\* validation error and returns no URL, and display_map hands no URL to the
\* browser.
C3_NoPointsNoUrl ==
    (call.op \in {"generate_map_url", "display_map"} /\ _points = <<>>)
        => /\ call.exc = "ValueError" /\ call.msg = "no points"
           /\ call.ret = <<>>
           /\ call.opened = <<>>

C3_Witness ==
    call.op = "display_map" /\ _points = <<>> /\ call.exc = "ValueError"

\* C4: the ll parameter of a generated URL is "<longitude>,<latitude>" of
\* the first point of the collection.
C4_CenterIsFirstPoint ==
    MadeUrl =>
        QueryParam(LastUrl, <<"l", "l">>) =
            <<float_str(_points[1].longitude) \o <<",">>
              \o float_str(_points[1].latitude)>>

\* C4 witness: [W1, W2] loaded, ll = 37.62,55.75.
C4_Witness ==
    /\ MadeUrl
    /\ Len(_points) = 2 /\ _points[1].latitude # _points[2].latitude
    /\ QueryParam(LastUrl, <<"l", "l">>) =
           << <<"3", "7", ".", "6", "2", ",", "5", "5", ".", "7", "5">> >>

\* C5: the pt parameter of a generated URL is the '~'-joined list of one
\* token "<longitude>,<latitude>,pmwtm<id>" per point, in collection order.
C5_OneMarkerPerPoint ==
    MadeUrl =>
        /\ Len(QueryParam(LastUrl, <<"p", "t">>)) = 1
        /\ LET tokens == Split(QueryParam(LastUrl, <<"p", "t">>)[1], "~")
           IN  /\ Len(tokens) = Len(_points)
               /\ \A i \in 1..Len(tokens) :
                     tokens[i] = float_str(_points[i].longitude) \o <<",">>
                                 \o float_str(_points[i].latitude)
                                 \o <<",", "p", "m", "w", "t", "m">>
                                 \o int_str(_points[i].id)

\* C5 witness: [W2, W1] loaded, pt = 30.5,-10.0,pmwtm2~37.62,55.75,pmwtm1.
C5_Witness ==
    /\ MadeUrl
    /\ Len(_points) = 2
    /\ QueryParam(LastUrl, <<"p", "t">>) =
           << <<"3", "0", ".", "5", ",", "-", "1", "0", ".", "0", ",",
                "p", "m", "w", "t", "m", "2", "~",
                "3", "7", ".", "6", "2", ",", "5", "5", ".", "7", "5", ",",
                "p", "m", "w", "t", "m", "1">> >>

\* C6: after a successful load the collection is exactly the points of that
\* call's input, none of an earlier load.
C6_LoadReplaces ==
    (call.op = "load_points" /\ call.exc = "none")
        => /\ call.data.t = "list"
           /\ Len(_points) = Len(call.data.v)
           /\ \A i \in 1..Len(_points) :
                 /\ new_point(call.data.v[i]).exc = "none"
                 /\ _points[i] = new_point(call.data.v[i]).val

\* C6 witness: a one-element array loaded into a generator that held points.
C6_Witness ==
    /\ call.op = "load_points" /\ call.exc = "none"
    /\ call.held
    /\ Len(call.data.v) = 1 /\ Len(_points) = 1

\* C7 (as stated): in --stdin mode the text of standard input is itself
\* parsed as JSON, whether or not it names an existing file.
C7_StdinParsedAsJson ==
    (args.stdin /\ call.op = "load_points")
        => /\ call.parsed <=> stdin.k = "json"
           /\ call.parsed => call.data = stdin.v

\* C8: load_points(s) parses the contents of the file s names when there is
\* one and s itself otherwise; so a path to a file holding a JSON text and
\* that text as a literal naming no file load the same collection.
C8_FileOrString ==
    /\ call.op = "load_points" =>
          LET text == IF call.arg \in DOMAIN fs THEN fs[call.arg] ELSE call.arg
          IN  /\ call.parsed <=> text.k = "json"
              /\ call.parsed => call.data = text.v
              /\ call.src = IF call.arg \in DOMAIN fs THEN "file" ELSE "string"
    /\ \A path \in DOMAIN fs :
          fs[path] \notin DOMAIN fs =>
              /\ load_points(fs, _points, path).points
                    = load_points(fs, _points, fs[path]).points
              /\ load_points(fs, _points, path).exc
                    = load_points(fs, _points, fs[path]).exc

\* C8 witness: points.json holds [W1, W2] and was loaded by its path.
C8_Witness ==
    /\ call.op = "load_points" /\ call.exc = "none"
    /\ call.arg = RawText("points.json")
    /\ call.arg \in DOMAIN fs /\ fs[call.arg] \notin DOMAIN fs
    /\ Len(_points) = 2 /\ _points[1].id = 1

\* C9: an error at any stage ends the run there with a failure status, no
\* later stage runs, and the browser is opened only after a successful load
\* and a successful URL generation.
C9_ErrorsAreFatal ==
    /\ \A i \in 1..Len(log) :
          log[i].exc # "none" =>
              /\ i = Len(log)
              /\ pc = "exit"
              /\ exit_code \notin {0, -1}
    /\ \A i \in 1..Len(log) :
          log[i].stage = "webbrowser.open" =>
              /\ i = 3
              /\ log[1].stage = "load_points" /\ log[1].exc = "none"
              /\ log[2].stage = "generate_map_url" /\ log[2].exc = "none"
    /\ exit_code = 0 => Len(log) = 3 /\ log[3].stage = "webbrowser.open"

\* C9 witness: the load failed part-way through the array and the run ended.
C9_Witness ==
    /\ pc = "exit" /\ exit_code = 1
    /\ Len(log) = 1 /\ log[1].exc # "none"
    /\ Len(_points) > 0

\* C10: with neither a positional json_input nor --stdin the program ends
\* with a usage error and a non-zero status, having loaded nothing, generated
\* nothing and opened nothing; the positional argument is loaded only when
\* --stdin is absent.
C10_UsageError ==
    /\ (~args.stdin /\ args.json_input \in {None, RawText("")} /\ pc # "main")
          => /\ pc = "exit" /\ exit_code = 2
             /\ log = <<>> /\ call = NoCall /\ _points = <<>>
    /\ \A i \in 1..Len(log) :
          log[i].stage = "load_points" =>
              (log[i].from = "json_input" <=> ~args.stdin)
    /\ call.op = "load_points" =>
          call.arg = IF args.stdin THEN stdin ELSE args.json_input
    /\ exit_code = 2 => ~args.stdin /\ args.json_input \in {None, RawText("")}

C10_Witness ==
    pc = "exit" /\ exit_code = 2 /\ ~args.stdin /\ args.json_input = None

====
